---- MODULE Spec2Model ----
(***************************************************************************)
(* Model of github.com/itart-top/executor: the bounded capture sink         *)
(* (limitedBuffer), the platform-agnostic entry point Run and the           *)
(* platform-specific runCommand (Unix and Windows variants), together with  *)
(* the parts of os/exec that runCommand drives: the process, the            *)
(* context-bound handle made by exec.CommandContext, Cmd.Wait and the       *)
(* output copying goroutines.                                               *)
(***************************************************************************)
EXTENDS Integers, Sequences, FiniteSets, TLC

(***************************************************************************)
(* Bounds of the model.                                                     *)
(***************************************************************************)
\* bytes a child writes to its two output streams together, at most
MaxOut == 2
\* bytes offered to one sink in the sink-only specification, at most
MaxOffered == 3
\* largest positive capture limit tried
MaxLimit == 2
\* largest wall-clock duration (in clock units) measured by time.Since
MaxDuration == 1

(***************************************************************************)
(* Program constants.                                                       *)
(***************************************************************************)
\* maxOutput: 1024 * 10
DefaultMaxOutput == 10240
\* exitCode := -1 / ExitCode: -1
Undetermined == -1
\* syscall.SIGKILL
SIGKILL == 9

Streams == {"stdout", "stderr"}
Platforms == {"unix", "windows"}
ExitCodes == {0, 1, 255}
\* signals that something other than the executor sends to the child (SIGTERM)
OtherSignals == {15}

(***************************************************************************)
(* Errors.  An error value is a record: kind tells what made it, is the     *)
(* sentinel errors.Is finds by unwrapping (%w), text what %v printed.       *)
(***************************************************************************)
\* a wait status: how a process ended ("none": no status, a nil *ProcessState).
\* by records who ended it: the process itself ("own"), a kill issued through
\* the executor or its exec.Cmd ("kill"), or a signal from elsewhere ("other")
NoStatus == [kind |-> "none", code |-> 0, by |-> "none"]
Exited(k) == [kind |-> "exited", code |-> k, by |-> "own"]
Signaled(sig) == [kind |-> "signaled", code |-> sig, by |-> "other"]

NoErr == [kind |-> "nil", is |-> "none", text |-> "<nil>", st |-> NoStatus]
ErrContextDone == "executor: context timeout or cancelled"
ErrStart == "executor: failed to start"
ErrEmptyCommand ==
    [kind |-> "new", is |-> "none", text |-> "executor: command cannot be empty",
     st |-> NoStatus]
\* errors of the os/exec layer: exec.LookPath's failure, ctx.Err(), *exec.ExitError
ErrNotFound ==
    [kind |-> "exec", is |-> "none", text |-> "executable file not found", st |-> NoStatus]
CtxErr == [kind |-> "ctx", is |-> "none", text |-> "context done", st |-> NoStatus]
\* io.ErrShortWrite
ErrShortWrite == [kind |-> "io", is |-> "none", text |-> "short write", st |-> NoStatus]
ExitError(st) ==
    [kind |-> "ExitError", is |-> "none",
     text |-> IF st.kind = "exited" THEN "exit status" ELSE "signal", st |-> st]

\* fmt.Errorf("%w: %v", sentinel, err): the sentinel is wrapped, err only printed
Wrap(sentinel, err) == [kind |-> "wrap", is |-> sentinel, text |-> err.text, st |-> NoStatus]

\* errors.Is(err, sentinel)
ErrorsIs(err, sentinel) == err.kind = "wrap" /\ err.is = sentinel

(***************************************************************************)
(* limitedBuffer                                                            *)
(***************************************************************************)
newLimitedBuffer(limit) ==
    [buf |-> <<>>, limit |-> limit, written |-> 0, truncated |-> FALSE]

\* a Write that stores the whole chunk even when it does not fit
WriteNoClip(b, p) ==
    IF b.limit <= 0 \/ b.limit - b.written > 0
    THEN [b EXCEPT !.buf = @ \o p, !.written = @ + Len(p),
                   !.truncated = @ \/ (b.limit > 0 /\ Len(p) > b.limit - b.written)]
    ELSE [b EXCEPT !.truncated = TRUE]

\* a Write that clips but forgets to record that it dropped bytes
WriteNoFlag(b, p) ==
    IF b.limit <= 0
    THEN [b EXCEPT !.buf = @ \o p, !.written = @ + Len(p)]
    ELSE LET remaining == b.limit - b.written
         IN  IF remaining <= 0
             THEN [b EXCEPT !.truncated = TRUE]
             ELSE IF Len(p) > remaining
             THEN [b EXCEPT !.buf = @ \o SubSeq(p, 1, remaining),
                            !.written = @ + remaining]
             ELSE [b EXCEPT !.buf = @ \o p, !.written = @ + Len(p)]

\* a Write that drops the whole of a chunk that does not fit
WriteDropsChunk(b, p) ==
    IF b.limit <= 0
    THEN [b EXCEPT !.buf = @ \o p, !.written = @ + Len(p)]
    ELSE LET remaining == b.limit - b.written
         IN  IF remaining <= 0 \/ Len(p) > remaining
             THEN [b EXCEPT !.truncated = TRUE]
             ELSE [b EXCEPT !.buf = @ \o p, !.written = @ + Len(p)]

\* a Write that counts the whole chunk as written when it clips it
WriteCountsOffered(b, p) ==
    IF b.limit <= 0
    THEN [b EXCEPT !.buf = @ \o p, !.written = @ + Len(p)]
    ELSE LET remaining == b.limit - b.written
         IN  IF remaining <= 0
             THEN [b EXCEPT !.truncated = TRUE]
             ELSE IF Len(p) > remaining
             THEN [b EXCEPT !.buf = @ \o SubSeq(p, 1, remaining),
                            !.written = @ + Len(p),
                            !.truncated = TRUE]
             ELSE [b EXCEPT !.buf = @ \o p, !.written = @ + Len(p)]

\* (b *limitedBuffer) Write(p): the state of b after the call
Write(b, p) ==
    IF b.limit <= 0
    THEN [b EXCEPT !.buf = @ \o p, !.written = @ + Len(p)]
    ELSE LET remaining == b.limit - b.written
         IN  IF remaining <= 0
             THEN [b EXCEPT !.truncated = TRUE]
             ELSE IF Len(p) > remaining
             THEN [b EXCEPT !.buf = @ \o SubSeq(p, 1, remaining),
                            !.written = @ + remaining,
                            !.truncated = TRUE]
             ELSE [b EXCEPT !.buf = @ \o p, !.written = @ + Len(p)]

\* a Write that reports the number of bytes it stored
WriteCountStored(b, p) ==
    IF b.limit <= 0 THEN Len(p)
    ELSE LET remaining == b.limit - b.written
         IN  IF remaining <= 0 THEN 0
             ELSE IF Len(p) > remaining THEN remaining
             ELSE Len(p)

\* (b *limitedBuffer) Write(p): the count it returns, return by return
WriteCount(b, p) ==
    IF b.limit <= 0 THEN Len(p)
    ELSE LET remaining == b.limit - b.written
         IN  IF remaining <= 0 THEN Len(p)
             ELSE IF Len(p) > remaining THEN Len(p)
             ELSE Len(p)

\* a Write that fails once the sink is full
WriteErrFull(b, p) ==
    IF b.limit > 0 /\ b.limit - b.written <= 0 THEN ErrShortWrite ELSE NoErr

\* (b *limitedBuffer) Write(p): the error it returns (nil at every return)
WriteErr(b, p) == NoErr

\* io.MultiWriter(b, w).Write(p): the error with which it stops before it
\* reaches w, because b.Write(p) failed or reported a count other than len(p)
MultiWriterErr(b, p) ==
    IF WriteErr(b, p) # NoErr THEN WriteErr(b, p)
    ELSE IF WriteCount(b, p) # Len(p) THEN ErrShortWrite
    ELSE NoErr

(***************************************************************************)
(* Config and options                                                       *)
(***************************************************************************)
NoCfg ==
    [cmd |-> "", args |-> <<>>, env |-> <<>>, dir |-> "", stdout |-> "none",
     stderr |-> "none", credential |-> <<>>, maxOutput |-> 0]

\* cfg := &Config{cmd: cmd, stdout: io.Discard, stderr: io.Discard, maxOutput: 1024 * 10}
DefaultConfig(c) ==
    [cmd |-> c, args |-> <<>>, env |-> <<>>, dir |-> "", stdout |-> "Discard",
     stderr |-> "Discard", credential |-> <<>>, maxOutput |-> DefaultMaxOutput]

WithArgs(a) == [op |-> "WithArgs", val |-> a]
WithEnv(e) == [op |-> "WithEnv", val |-> e]
WithDir(d) == [op |-> "WithDir", val |-> <<d>>]
WithStdout(w) == [op |-> "WithStdout", val |-> <<w>>]
WithStderr(w) == [op |-> "WithStderr", val |-> <<w>>]
WithCredential(uid, gid) == [op |-> "WithCredential", val |-> <<uid, gid>>]
WithMaxOutput(n) == [op |-> "WithMaxOutput", val |-> <<n>>]

\* opt(cfg) for one Option
ApplyOption(c, o) ==
    CASE o.op = "WithArgs" -> [c EXCEPT !.args = o.val]
      [] o.op = "WithEnv" -> [c EXCEPT !.env = @ \o o.val]
      [] o.op = "WithDir" -> [c EXCEPT !.dir = o.val[1]]
      [] o.op = "WithStdout" -> [c EXCEPT !.stdout = o.val[1]]
      [] o.op = "WithStderr" -> [c EXCEPT !.stderr = o.val[1]]
      [] o.op = "WithCredential" -> [c EXCEPT !.credential = o.val]
      [] o.op = "WithMaxOutput" -> [c EXCEPT !.maxOutput = o.val[1]]

\* for _, opt := range opts { opt(cfg) }
RECURSIVE ApplyOptions(_, _)
ApplyOptions(c, os) ==
    IF os = <<>> THEN c ELSE ApplyOptions(ApplyOption(c, Head(os)), Tail(os))

(***************************************************************************)
(* Exit codes                                                               *)
(***************************************************************************)
\* an exit code that is never read from the process state
ProcessStateExitCodeLost(ps) == Undetermined

\* (*os.ProcessState).ExitCode(): -1 for a nil state and for a process that
\* did not exit (it was terminated by a signal)
ProcessStateExitCode(ps) ==
    IF ps.kind = "exited" THEN ps.code ELSE Undetermined

\* runCommand's exit code, from execCmd.ProcessState and waitErr
ExitCodeOf(plat, ps, werr) ==
    IF ps # NoStatus
    THEN ProcessStateExitCode(ps)
    ELSE IF plat = "unix" /\ werr.kind = "ExitError"
         THEN IF werr.st.kind = "exited" THEN werr.st.code
              ELSE IF werr.st.kind = "signaled" THEN 128 + werr.st.code
              ELSE Undetermined
         ELSE Undetermined

(***************************************************************************)
(* Results                                                                  *)
(***************************************************************************)
NoResult ==
    [Stdout |-> <<>>, Stderr |-> <<>>, ExitCode |-> 0, Err |-> NoErr, Duration |-> 0,
     StdoutTruncated |-> FALSE, StderrTruncated |-> FALSE]

\* an empty-command result that reports success
EmptyCommandResultZero == [NoResult EXCEPT !.Err = ErrEmptyCommand]

\* Result{Err: errors.New("executor: command cannot be empty"), ExitCode: -1}
EmptyCommandResult ==
    [NoResult EXCEPT !.Err = ErrEmptyCommand, !.ExitCode = Undetermined]

\* a start failure that reports the time spent in Start
StartFailedResultTimed(err, d) ==
    [NoResult EXCEPT !.Err = Wrap(ErrStart, err), !.ExitCode = Undetermined,
                     !.Duration = d]

\* Result{Err: fmt.Errorf("%w: %v", ErrStart, err), ExitCode: -1}; d is the time
\* Start took, which this result does not report
StartFailedResult(err, d) ==
    [NoResult EXCEPT !.Err = Wrap(ErrStart, err), !.ExitCode = Undetermined]

\* the Result runCommand assembles after the race
AssembleResult(plat, out, errb, ps, werr, d) ==
    [Stdout |-> out.buf, Stderr |-> errb.buf,
     ExitCode |-> ExitCodeOf(plat, ps, werr), Err |-> werr, Duration |-> d,
     StdoutTruncated |-> out.truncated, StderrTruncated |-> errb.truncated]

(***************************************************************************)
(* State                                                                    *)
(***************************************************************************)
VARIABLES
    platform,      \* which runCommand is built: "unix" or "windows"
    pc,            \* the coordinator (Run/runCommand): idle, select, kill, cancel_wait, returned
    cmd,           \* Run's cmd argument
    nopts,         \* the number of options Run was given
    cfg,           \* the Config Run builds (NoCfg while there is none)
    ctxDone,       \* the token has fired (ctx.Done() is closed)
    proc,          \* the child: none, running, zombie (ended, not reaped), reaped
    status,        \* how the child ended
    desc,          \* a descendant forked by the child: none, alive, dead
    descHolds,     \* the descendant holds the write ends of the output pipes
    wpc,           \* the unit running execCmd.Wait(): none, procwait, ctxresult, pumps, finished
    werr,          \* the error Wait has so far
    watch,         \* the goroutine of exec.CommandContext: none, watching, sending, finished
    watchErr,      \* the error that goroutine reports to Wait
    done,          \* the channel done (capacity 1)
    ProcessState,  \* execCmd.ProcessState
    emitted,       \* per stream: bytes the child has written
    pipe,          \* per stream: bytes in the pipe, not yet copied
    pumpDone,      \* per stream: the copying goroutine has returned
    sinks,         \* per stream: the limitedBuffer
    offered,       \* per stream: every byte offered to the sink so far, in order
    emptyWrite,    \* per stream: the sink has been given an empty chunk
    chunks,        \* per stream: the number of non-empty chunks the sink was given
    ext,           \* per stream: the bytes handed to cfg.stdout / cfg.stderr
    pumpBlocked,   \* per stream: the copying goroutine is inside a Write of
                   \* cfg.stdout / cfg.stderr that never completes
    sinkErr,       \* per stream: the failure (an error, or a count other than
                   \* len(p)) a Write of the sink has reported to its caller
    result,        \* the Result returned
    branch,        \* the case the select took: none, cancel, exit
    killIssued,    \* the coordinator has issued its kill
    waitAtKill,    \* whether Wait had returned when the coordinator issued its kill
    firedRunning   \* what was running at the moment the token fired: "no" (no child
                   \* running), "child" (the child alone), "group" (the child and a
                   \* live descendant in its group)

vars ==
    <<platform, pc, cmd, nopts, cfg, ctxDone, proc, status, desc, descHolds, wpc, werr,
      watch, watchErr, done, ProcessState, emitted, pipe, pumpDone, sinks, offered,
      emptyWrite, chunks, ext, pumpBlocked, sinkErr, result, branch, killIssued, waitAtKill,
      firedRunning>>

coordVars == <<pc, cmd, nopts, cfg, result, branch, killIssued, waitAtKill>>
procVars == <<proc, status, desc, descHolds>>
waitVars == <<wpc, werr, watch, watchErr, done, ProcessState>>
pumpVars ==
    <<emitted, pipe, pumpDone, sinks, offered, emptyWrite, chunks, ext, pumpBlocked, sinkErr>>

(***************************************************************************)
(* Inputs                                                                   *)
(***************************************************************************)
Commands == {"", "nonexistentcommand", "sh"}
Bytes == {0, 1}

\* capture limits tried on a sink alone: unbounded (-1, 0) and 1 .. MaxLimit
Limits == -1 .. MaxLimit

\* the option lists tried on a command that starts: the options that change what
\* runCommand does after Start (the capture limit: unbounded, or one byte; a
\* caller's writer for stdout)
LimitOptionLists ==
    {<<>>, <<WithMaxOutput(0)>>, <<WithMaxOutput(1)>>, <<WithMaxOutput(1), WithStdout("w")>>}

\* the option lists tried on a call that returns before a process exists
OptionLists ==
    LimitOptionLists
        \cup {<<o>> : o \in {WithArgs(<<"-c">>), WithEnv(<<"K=v">>), WithDir("/tmp"),
                              WithStdout("w"), WithStderr("w"),
                              WithCredential(1000, 1000)}}
        \cup {<<WithEnv(<<"K=v">>), WithEnv(<<"L=w">>)>>,
              <<WithMaxOutput(1), WithMaxOutput(0)>>}

RECURSIVE SeqsUpTo(_, _)
SeqsUpTo(S, n) ==
    IF n = 0 THEN {<<>>}
    ELSE LET shorter == SeqsUpTo(S, n - 1)
         IN  shorter \cup {Append(q, x) : q \in shorter, x \in S}

\* the i-th byte the child writes to a stream
OutByte(i) == i % 2

\* the bytes at positions from+1 .. from+n of the child's output
OutChunk(from, n) == [i \in 1 .. n |-> OutByte(from + i)]

FreshSinks(limit) == [s \in Streams |-> newLimitedBuffer(limit)]
EmptyStreams == [s \in Streams |-> <<>>]

\* nothing has been called yet: no Config, no process, no goroutine, no Result
Idle ==
    /\ pc = "idle"
    /\ cmd = ""
    /\ nopts = 0
    /\ cfg = NoCfg
    /\ ctxDone = FALSE
    /\ proc = "none"
    /\ status = NoStatus
    /\ desc = "none"
    /\ descHolds = FALSE
    /\ wpc = "none"
    /\ werr = NoErr
    /\ watch = "none"
    /\ watchErr = NoErr
    /\ done = <<>>
    /\ ProcessState = NoStatus
    /\ emitted = [s \in Streams |-> 0]
    /\ pipe = EmptyStreams
    /\ pumpDone = [s \in Streams |-> FALSE]
    /\ offered = EmptyStreams
    /\ emptyWrite = [s \in Streams |-> FALSE]
    /\ chunks = [s \in Streams |-> 0]
    /\ ext = EmptyStreams
    /\ pumpBlocked = [s \in Streams |-> FALSE]
    /\ sinkErr = [s \in Streams |-> NoErr]
    /\ result = NoResult
    /\ branch = "none"
    /\ killIssued = FALSE
    /\ waitAtKill = "none"
    /\ firedRunning = "no"

Init ==
    /\ platform \in Platforms
    /\ sinks = FreshSinks(0)
    /\ Idle

(***************************************************************************)
(* The token                                                                *)
(***************************************************************************)
\* the deadline expires or the caller cancels: ctx.Done() is closed
CtxFire ==
    /\ ~ctxDone
    /\ pc # "returned"
    /\ ctxDone' = TRUE
    /\ firedRunning' = IF proc # "running" THEN "no"
                       ELSE IF desc = "alive" THEN "group" ELSE "child"
    /\ UNCHANGED <<platform, coordVars, procVars, waitVars, pumpVars>>

(***************************************************************************)
(* Run: validation, Config, and runCommand up to the select                 *)
(***************************************************************************)
\* execCmd.Start(): the error it returns (lookup first, then the token), NoErr
\* when the process was created
StartError(c) ==
    IF c = "nonexistentcommand" THEN ErrNotFound
    ELSE IF ctxDone THEN CtxErr
    ELSE NoErr

\* Run(ctx, "", opts...)
RunEmpty(os) ==
    /\ pc = "idle"
    /\ cmd' = ""
    /\ nopts' = Len(os)
    /\ result' = EmptyCommandResult
    /\ pc' = "returned"
    /\ UNCHANGED <<platform, cfg, branch, killIssued, waitAtKill, ctxDone, firedRunning,
                   procVars, waitVars, pumpVars>>

\* Run(ctx, c, opts...) whose execCmd.Start() fails
RunStartFailed(c, os, d) ==
    /\ pc = "idle"
    /\ c # ""
    /\ StartError(c) # NoErr
    /\ cmd' = c
    /\ nopts' = Len(os)
    /\ cfg' = ApplyOptions(DefaultConfig(c), os)
    /\ sinks' = FreshSinks(cfg'.maxOutput)
    /\ result' = StartFailedResult(StartError(c), d)
    /\ pc' = "returned"
    /\ UNCHANGED <<platform, branch, killIssued, waitAtKill, ctxDone, firedRunning,
                   procVars, waitVars, emitted, pipe, pumpDone, offered, emptyWrite, chunks,
                   ext, pumpBlocked, sinkErr>>

\* Run(ctx, c, opts...) whose execCmd.Start() succeeds: the child runs, the
\* context goroutine watches, the copying goroutines run, and
\* go func() { done <- execCmd.Wait() }() is started
RunStarted(c, os) ==
    /\ pc = "idle"
    /\ c # ""
    /\ StartError(c) = NoErr
    /\ cmd' = c
    /\ nopts' = Len(os)
    /\ cfg' = ApplyOptions(DefaultConfig(c), os)
    /\ sinks' = FreshSinks(cfg'.maxOutput)
    /\ proc' = "running"
    /\ watch' = "watching"
    /\ wpc' = "procwait"
    /\ pc' = "select"
    /\ UNCHANGED <<platform, result, branch, killIssued, waitAtKill, ctxDone, firedRunning,
                   status, desc, descHolds, werr, watchErr, done, ProcessState,
                   emitted, pipe, pumpDone, offered, emptyWrite, chunks, ext,
                   pumpBlocked, sinkErr>>

(***************************************************************************)
(* The child and its descendant                                             *)
(***************************************************************************)
\* the child writes its next n bytes to stream s
ChildWrite(s, n) ==
    /\ proc = "running"
    /\ emitted["stdout"] + emitted["stderr"] + n <= MaxOut
    /\ pipe' = [pipe EXCEPT ![s] = @ \o OutChunk(emitted[s], n)]
    /\ emitted' = [emitted EXCEPT ![s] = @ + n]
    /\ UNCHANGED <<platform, coordVars, ctxDone, firedRunning, procVars, waitVars,
                   pumpDone, sinks, offered, emptyWrite, chunks, ext, pumpBlocked, sinkErr>>

\* the child exits on its own with code k
ChildExit(k) ==
    /\ proc = "running"
    /\ proc' = "zombie"
    /\ status' = Exited(k)
    /\ UNCHANGED <<platform, coordVars, ctxDone, firedRunning, desc, descHolds, waitVars,
                   pumpVars>>

\* the child is terminated by a signal that the executor did not send
ChildSignaled(sig) ==
    /\ proc = "running"
    /\ proc' = "zombie"
    /\ status' = Signaled(sig)
    /\ UNCHANGED <<platform, coordVars, ctxDone, firedRunning, desc, descHolds, waitVars,
                   pumpVars>>

\* the child forks a descendant, which stays in the child's process group and
\* keeps (h) or closes the inherited output pipes
ChildFork(h) ==
    /\ proc = "running"
    /\ desc = "none"
    /\ desc' = "alive"
    /\ descHolds' = h
    /\ UNCHANGED <<platform, coordVars, ctxDone, firedRunning, proc, status, waitVars,
                   pumpVars>>

\* the descendant exits on its own (its pipe ends are closed)
DescExit ==
    /\ desc = "alive"
    /\ desc' = "dead"
    /\ descHolds' = FALSE
    /\ UNCHANGED <<platform, coordVars, ctxDone, firedRunning, proc, status,
                   waitVars, pumpVars>>

\* some process still holds the write end of the output pipes
PipeHeld == proc = "running" \/ (desc = "alive" /\ descHolds)

(***************************************************************************)
(* The copying goroutines: pipe -> io.MultiWriter(sink, cfg.stdout/stderr)  *)
(***************************************************************************)
\* cfg.stdout / cfg.stderr: the second writer of the stream's io.MultiWriter
ExternalWriter(c, s) == IF s = "stdout" THEN c.stdout ELSE c.stderr

\* the goroutine of stream s reads k bytes and writes them through the
\* io.MultiWriter: to the sink first and, unless the sink's Write failed or came
\* back short, to cfg.stdout / cfg.stderr; a failure ends the goroutine
PumpCopy(s, k) ==
    /\ pc # "idle"
    /\ ~pumpDone[s]
    /\ ~pumpBlocked[s]
    /\ k <= Len(pipe[s])
    /\ LET p == SubSeq(pipe[s], 1, k)
           e == MultiWriterErr(sinks[s], p)
       IN  /\ sinks' = [sinks EXCEPT ![s] = Write(@, p)]
           /\ offered' = [offered EXCEPT ![s] = @ \o p]
           /\ ext' = [ext EXCEPT ![s] = IF e = NoErr THEN @ \o p ELSE @]
           /\ sinkErr' = [sinkErr EXCEPT ![s] = e]
           /\ pumpDone' = [pumpDone EXCEPT ![s] = e # NoErr]
    /\ pipe' = [pipe EXCEPT ![s] = SubSeq(@, k + 1, Len(@))]
    /\ chunks' = [chunks EXCEPT ![s] = @ + 1]
    /\ UNCHANGED <<platform, coordVars, ctxDone, firedRunning, procVars, waitVars,
                   emitted, emptyWrite, pumpBlocked>>

\* the same, with a caller's writer whose Write is handed the k bytes and never
\* returns (a pipe nobody reads): the goroutine stays inside that Write
PumpBlock(s, k) ==
    /\ pc # "idle"
    /\ ExternalWriter(cfg, s) \notin {"none", "Discard"}
    /\ ~pumpDone[s]
    /\ ~pumpBlocked[s]
    /\ k <= Len(pipe[s])
    /\ LET p == SubSeq(pipe[s], 1, k)
       IN  /\ MultiWriterErr(sinks[s], p) = NoErr
           /\ sinks' = [sinks EXCEPT ![s] = Write(@, p)]
           /\ offered' = [offered EXCEPT ![s] = @ \o p]
           /\ ext' = [ext EXCEPT ![s] = @ \o p]
    /\ pumpBlocked' = [pumpBlocked EXCEPT ![s] = TRUE]
    /\ pipe' = [pipe EXCEPT ![s] = SubSeq(@, k + 1, Len(@))]
    /\ chunks' = [chunks EXCEPT ![s] = @ + 1]
    /\ UNCHANGED <<platform, coordVars, ctxDone, firedRunning, procVars, waitVars,
                   emitted, pumpDone, emptyWrite, sinkErr>>

\* the goroutine of stream s reads end of file and returns
PumpEOF(s) ==
    /\ proc \in {"zombie", "reaped"}
    /\ ~pumpDone[s]
    /\ ~pumpBlocked[s]
    /\ pipe[s] = <<>>
    /\ ~PipeHeld
    /\ pumpDone' = [pumpDone EXCEPT ![s] = TRUE]
    /\ UNCHANGED <<platform, coordVars, ctxDone, firedRunning, procVars, waitVars,
                   emitted, pipe, sinks, offered, emptyWrite, chunks, ext, pumpBlocked,
                   sinkErr>>

(***************************************************************************)
(* Kill                                                                     *)
(***************************************************************************)
\* the status of a process ended by the kill: SIGKILL on Unix,
\* TerminateProcess(handle, 1) on Windows
KilledStatus ==
    IF platform = "windows"
    THEN [kind |-> "exited", code |-> 1, by |-> "kill"]
    ELSE [kind |-> "signaled", code |-> SIGKILL, by |-> "kill"]

\* os.Process.Kill(): only the direct child is signalled
KillChild ==
    /\ proc' = IF proc = "running" THEN "zombie" ELSE proc
    /\ status' = IF proc = "running" THEN KilledStatus ELSE status
    /\ UNCHANGED <<desc, descHolds>>

\* syscall.Kill(-pid, SIGKILL): every live process of the child's group is signalled
KillGroup ==
    /\ proc' = IF proc = "running" THEN "zombie" ELSE proc
    /\ status' = IF proc = "running" THEN KilledStatus ELSE status
    /\ desc' = IF desc = "alive" THEN "dead" ELSE desc
    /\ descHolds' = FALSE

\* the kill runCommand issues: the group on Unix, the direct child on Windows
CoordinatorKill == IF platform = "unix" THEN KillGroup ELSE KillChild

(***************************************************************************)
(* exec.CommandContext's goroutine (watchCtx)                               *)
(***************************************************************************)
ErrCancel == [kind |-> "exec", is |-> "none", text |-> "exec: canceling Cmd", st |-> NoStatus]

\* what Cancel (Process.Kill) makes the goroutine report: ctx.Err() when the
\* signal was sent, nothing when the process was already reaped; for a process
\* that has ended but is not reaped yet the platform decides
CancelOutcomes ==
    CASE proc = "running" -> {CtxErr}
      [] proc = "reaped" -> {NoErr}
      [] OTHER -> {CtxErr, NoErr, ErrCancel}

\* case <-c.ctx.Done(): the goroutine kills the direct child
WatchCancel(e) ==
    /\ watch = "watching"
    /\ ctxDone
    /\ e \in CancelOutcomes
    /\ KillChild
    /\ watchErr' = e
    /\ watch' = "sending"
    /\ UNCHANGED <<platform, coordVars, ctxDone, firedRunning, wpc, werr, done, ProcessState,
                   pumpVars>>

(***************************************************************************)
(* The unit running execCmd.Wait()                                          *)
(***************************************************************************)
\* a wait that reports a nonzero exit as no error
ProcessWaitErrNil(st) == NoErr

\* the error of c.Process.Wait() as Cmd.Wait sees it: an *ExitError unless
\* the state is a success (exit code 0)
ProcessWaitErr(st) ==
    IF st.kind = "exited" /\ st.code = 0 THEN NoErr ELSE ExitError(st)

\* c.Process.Wait() returns: the child is reaped, c.ProcessState is set
WaitProcess ==
    /\ wpc = "procwait"
    /\ proc = "zombie"
    /\ proc' = "reaped"
    /\ ProcessState' = status
    /\ werr' = ProcessWaitErr(status)
    /\ wpc' = "ctxresult"
    /\ UNCHANGED <<platform, coordVars, ctxDone, firedRunning, status, desc, descHolds,
                   watch, watchErr, done, pumpVars>>

\* Wait receives from the context goroutine, which had not seen the token (or
\* whose select took the send although the token had fired)
WaitWatchIdle ==
    /\ wpc = "ctxresult"
    /\ watch = "watching"
    /\ watch' = "finished"
    /\ wpc' = "pumps"
    /\ UNCHANGED <<platform, coordVars, ctxDone, firedRunning, procVars, werr, watchErr,
                   done, ProcessState, pumpVars>>

\* Wait receives the context goroutine's report: it is Wait's error only when
\* c.Process.Wait() gave none
WaitWatchResult ==
    /\ wpc = "ctxresult"
    /\ watch = "sending"
    /\ werr' = IF werr = NoErr /\ watchErr # NoErr THEN watchErr ELSE werr
    /\ watch' = "finished"
    /\ wpc' = "pumps"
    /\ UNCHANGED <<platform, coordVars, ctxDone, firedRunning, procVars, watchErr,
                   done, ProcessState, pumpVars>>

\* the first error of the copying goroutines
CopyErr == IF sinkErr["stdout"] # NoErr THEN sinkErr["stdout"] ELSE sinkErr["stderr"]

\* a Wait that returns without joining the copying goroutines
WaitReturnNoJoin ==
    /\ wpc = "pumps"
    /\ done' = Append(done, IF werr = NoErr THEN CopyErr ELSE werr)
    /\ wpc' = "finished"
    /\ UNCHANGED <<platform, coordVars, ctxDone, firedRunning, procVars, werr, watch,
                   watchErr, ProcessState, pumpVars>>

\* Wait has joined the copying goroutines and returns their error if it has
\* none of its own; done <- its error
WaitReturn ==
    /\ wpc = "pumps"
    /\ \A s \in Streams : pumpDone[s]
    /\ done' = Append(done, IF werr = NoErr THEN CopyErr ELSE werr)
    /\ wpc' = "finished"
    /\ UNCHANGED <<platform, coordVars, ctxDone, firedRunning, procVars, werr, watch,
                   watchErr, ProcessState, pumpVars>>

(***************************************************************************)
(* runCommand: the select and what follows                                  *)
(***************************************************************************)
\* case <-ctx.Done(): is selected
SelectCtxDone ==
    /\ pc = "select"
    /\ ctxDone
    /\ branch' = "cancel"
    /\ pc' = "kill"
    /\ UNCHANGED <<platform, cmd, nopts, cfg, result, killIssued, waitAtKill, ctxDone,
                   firedRunning, procVars, waitVars, pumpVars>>

\* a cancellation branch that goes on to wait without killing
KillSkipped ==
    /\ pc = "kill"
    /\ pc' = "cancel_wait"
    /\ UNCHANGED <<platform, cmd, nopts, cfg, result, branch, killIssued, waitAtKill,
                   ctxDone, firedRunning, procVars, waitVars, pumpVars>>

\* if execCmd.Process != nil { kill }
Kill ==
    /\ pc = "kill"
    /\ CoordinatorKill
    /\ killIssued' = TRUE
    /\ waitAtKill' = IF wpc = "finished" THEN "resolved" ELSE "pending"
    /\ pc' = "cancel_wait"
    /\ UNCHANGED <<platform, cmd, nopts, cfg, result, branch, ctxDone, firedRunning,
                   waitVars, pumpVars>>

\* waitErr = <-done; waitErr = fmt.Errorf("%w: %v", ErrContextDone, waitErr);
\* then the Result is assembled and returned
CancelReturn(d) ==
    /\ pc = "cancel_wait"
    /\ done # <<>>
    /\ done' = Tail(done)
    /\ result' = AssembleResult(platform, sinks["stdout"], sinks["stderr"], ProcessState,
                                Wrap(ErrContextDone, Head(done)), d)
    /\ pc' = "returned"
    /\ UNCHANGED <<platform, cmd, nopts, cfg, branch, killIssued, waitAtKill, ctxDone,
                   firedRunning, procVars, wpc, werr, watch, watchErr, ProcessState, pumpVars>>

\* case err := <-done: is selected; waitErr = err; then the Result is assembled
\* and returned
SelectDone(d) ==
    /\ pc = "select"
    /\ done # <<>>
    /\ done' = Tail(done)
    /\ branch' = "exit"
    /\ result' = AssembleResult(platform, sinks["stdout"], sinks["stderr"], ProcessState,
                                Head(done), d)
    /\ pc' = "returned"
    /\ UNCHANGED <<platform, cmd, nopts, cfg, killIssued, waitAtKill, ctxDone,
                   firedRunning, procVars, wpc, werr, watch, watchErr, ProcessState, pumpVars>>

(***************************************************************************)
(* Specification of one Run call                                            *)
(***************************************************************************)
Next ==
    \/ CtxFire
    \/ \E os \in OptionLists : RunEmpty(os)
    \/ \E c \in Commands, os \in OptionLists, d \in 0 .. MaxDuration :
          RunStartFailed(c, os, d)
    \/ \E c \in Commands, os \in LimitOptionLists : RunStarted(c, os)
    \/ \E s \in Streams, n \in 1 .. MaxOut : ChildWrite(s, n)
    \/ \E k \in ExitCodes : ChildExit(k)
    \/ \E sig \in OtherSignals : ChildSignaled(sig)
    \/ \E h \in BOOLEAN : ChildFork(h)
    \/ DescExit
    \/ \E s \in Streams, k \in 1 .. MaxOut : PumpCopy(s, k)
    \/ \E s \in Streams, k \in 1 .. MaxOut : PumpBlock(s, k)
    \/ \E s \in Streams : PumpEOF(s)
    \/ \E e \in {CtxErr, NoErr, ErrCancel} : WatchCancel(e)
    \/ WaitProcess
    \/ WaitWatchIdle
    \/ WaitWatchResult
    \/ WaitReturn
    \/ SelectCtxDone
    \/ Kill
    \/ \E d \in 1 .. MaxDuration : CancelReturn(d)
    \/ \E d \in 1 .. MaxDuration : SelectDone(d)

Spec == Init /\ [][Next]_vars

(***************************************************************************)
(* Specification of the limitedBuffer alone: two sinks made with the same   *)
(* limit, as runCommand makes them, each written by its own producer.       *)
(***************************************************************************)
InitSink ==
    /\ platform = "unix"
    /\ \E limit \in Limits : sinks = FreshSinks(limit)
    /\ Idle

\* b.Write(p) on the sink of stream s, p not empty
SinkWrite(s, p) ==
    /\ p # <<>>
    /\ Len(offered[s]) + Len(p) <= MaxOffered
    /\ sinks' = [sinks EXCEPT ![s] = Write(@, p)]
    /\ offered' = [offered EXCEPT ![s] = @ \o p]
    /\ sinkErr' = [sinkErr EXCEPT ![s] = IF @ # NoErr THEN @ ELSE MultiWriterErr(sinks[s], p)]
    /\ chunks' = [chunks EXCEPT ![s] = @ + 1]
    /\ UNCHANGED <<platform, coordVars, ctxDone, firedRunning, procVars, waitVars,
                   emitted, pipe, pumpDone, emptyWrite, ext, pumpBlocked>>

\* b.Write(p) on the sink of stream s with len(p) = 0
SinkWriteEmpty(s) ==
    /\ ~emptyWrite[s]
    /\ sinks' = [sinks EXCEPT ![s] = Write(@, <<>>)]
    /\ emptyWrite' = [emptyWrite EXCEPT ![s] = TRUE]
    /\ sinkErr' = [sinkErr EXCEPT ![s] = IF @ # NoErr THEN @
                                         ELSE MultiWriterErr(sinks[s], <<>>)]
    /\ UNCHANGED <<platform, coordVars, ctxDone, firedRunning, procVars, waitVars,
                   emitted, pipe, pumpDone, offered, chunks, ext, pumpBlocked>>

NextSink ==
    \/ \E s \in Streams, p \in SeqsUpTo(Bytes, MaxOffered) : SinkWrite(s, p)
    \/ \E s \in Streams : SinkWriteEmpty(s)

SpecSink == InitSink /\ [][NextSink]_vars

IsPrefix(a, b) == Len(a) <= Len(b) /\ a = SubSeq(b, 1, Len(a))

(***************************************************************************)
(* Claims about the limitedBuffer                                           *)
(***************************************************************************)
\* C9: a sink with capacity N > 0 that has received L bytes through non-empty
\* writes only has truncated = FALSE and stores L bytes when L <= N, and has
\* truncated = TRUE and stores at most N bytes when L > N; for each stream on
\* its own, whatever the other stream's sink has received.
C9_TruncationByLength ==
    \A s \in Streams :
        (sinks[s].limit > 0 /\ ~emptyWrite[s]) =>
            LET L == Len(offered[s])
                N == sinks[s].limit
            IN  /\ L <= N => (~sinks[s].truncated /\ Len(sinks[s].buf) = L)
                /\ L > N => (sinks[s].truncated /\ Len(sinks[s].buf) <= N)

\* C9 witness: one stream's sink was overrun by several writes while the other
\* stream's sink, of the same capacity, was written and is not truncated
C9_Witness ==
    /\ sinks["stdout"].limit > 0
    /\ Len(offered["stdout"]) > sinks["stdout"].limit
    /\ sinks["stdout"].truncated
    /\ Len(sinks["stdout"].buf) = sinks["stdout"].limit
    /\ Len(offered["stderr"]) = sinks["stderr"].limit
    /\ ~sinks["stderr"].truncated
    /\ ~emptyWrite["stdout"] /\ ~emptyWrite["stderr"]

\* C10: with limit > 0 the stored bytes are never more than limit and are a
\* prefix of all the bytes offered, in every state; and no Write resets a
\* truncated flag that is TRUE.
C10_SinkInvariant ==
    /\ [](\A s \in Streams :
            sinks[s].limit > 0 =>
                /\ Len(sinks[s].buf) <= sinks[s].limit
                /\ IsPrefix(sinks[s].buf, offered[s]))
    /\ [][\A s \in Streams :
            (sinks[s].limit > 0 /\ sinks[s].truncated) => sinks'[s].truncated]_vars

\* C10 witness: a truncated sink that holds exactly limit bytes, fewer than offered
C10_Witness ==
    \E s \in Streams :
        /\ sinks[s].limit > 0
        /\ sinks[s].truncated
        /\ Len(sinks[s].buf) = sinks[s].limit
        /\ Len(offered[s]) > Len(sinks[s].buf)

(***************************************************************************)
(* Claims about one Run call                                                *)
(***************************************************************************)
Returned == pc = "returned"
Cancelled == Returned /\ ErrorsIs(result.Err, ErrContextDone)

\* C1: on the Unix variant, whenever the select took the cancellation case, the
\* returned Result has ExitCode = -1, whatever the wait resolves to.
C1_CancelExitCodeUndetermined ==
    (Returned /\ platform = "unix" /\ branch = "cancel") =>
        result.ExitCode = Undetermined

\* C2: if the child was started and had not exited when the token fired, the
\* Result that Run returns carries a cancellation-class error.
C2_RunningAtFireIsCancelled ==
    (Returned /\ firedRunning # "no") => ErrorsIs(result.Err, ErrContextDone)

\* C3 as stated: on every execution that ends in Cancelled the kill was issued
\* and the asynchronous wait resolved only after it.
C3_WaitResolvesAfterKill ==
    Cancelled => (killIssued /\ waitAtKill = "pending")

\* C3 as amended: the coordinator issues its kill only after it has observed
\* the cancellation; it waits for the result of the asynchronous wait only
\* after the kill; and a cancellation-class Result is returned only when the
\* kill has been issued and the wait has resolved and been received.
C3_CancelOrder ==
    /\ killIssued => (branch = "cancel" /\ ctxDone)
    /\ pc = "cancel_wait" => killIssued
    /\ Cancelled => (killIssued /\ branch = "cancel" /\ wpc = "finished" /\ done = <<>>
                     /\ proc = "reaped")

\* C3 witness: a Cancelled return of a child that the coordinator's kill ended,
\* the wait resolving after the kill
C3_Witness ==
    /\ Cancelled
    /\ killIssued
    /\ waitAtKill = "pending"
    /\ status.by = "kill"
    /\ firedRunning = "child"

\* C4: on the Unix variant, when the token fired while the child was running
\* with a live descendant in its process group, no process of the group is
\* alive once Run has returned.
C4_NoGroupSurvivor ==
    (Returned /\ platform = "unix" /\ firedRunning = "group") =>
        (proc # "running" /\ desc # "alive")

\* C5: Run with an empty command returns ExitCode -1, the error "executor:
\* command cannot be empty", Duration 0, empty captures and both truncated
\* flags false; no process, no kill, no Config and so no option applied.
C5_EmptyCommand ==
    (Returned /\ cmd = "") =>
        /\ result.ExitCode = -1
        /\ result.Err.kind = "new"
        /\ result.Err.text = "executor: command cannot be empty"
        /\ result.Duration = 0
        /\ result.Stdout = <<>> /\ result.Stderr = <<>>
        /\ ~result.StdoutTruncated /\ ~result.StderrTruncated
        /\ proc = "none" /\ wpc = "none" /\ watch = "none"
        /\ ~killIssued
        /\ cfg = NoCfg

\* C5 witness: an empty command given two options under a token that had fired
C5_Witness == Returned /\ cmd = "" /\ nopts = 2 /\ ctxDone

\* the call returned because execCmd.Start() failed
StartFailed == Returned /\ cmd # "" /\ proc = "none"

\* C6: when process creation fails Run returns an ErrStart-class error,
\* ExitCode -1, Duration 0 and empty captures; no kill was issued, no
\* asynchronous wait was started and no byte reached a sink. Only a failed
\* start gives an ErrStart-class error.
C6_StartFailure ==
    /\ StartFailed =>
        /\ ErrorsIs(result.Err, ErrStart)
        /\ result.ExitCode = -1
        /\ result.Duration = 0
        /\ result.Stdout = <<>> /\ result.Stderr = <<>>
        /\ ~result.StdoutTruncated /\ ~result.StderrTruncated
        /\ ~killIssued
        /\ wpc = "none" /\ done = <<>>
        /\ \A s \in Streams : offered[s] = <<>> /\ sinks[s].written = 0
    /\ (Returned /\ ErrorsIs(result.Err, ErrStart)) => StartFailed

\* C6 witness: the command was not found, with a one-byte capture limit asked for
C6_Witness ==
    /\ StartFailed
    /\ cmd = "nonexistentcommand"
    /\ result.Err.text = "executable file not found"
    /\ cfg.maxOutput = 1

\* the race was resolved by the exit notification of a child that exited on its own
CompletedOwnExit ==
    Returned /\ branch = "exit" /\ status.kind = "exited" /\ status.by = "own"

\* C7: if the child exits on its own with code K and the select takes the exit
\* notification, the Result has ExitCode = K and an error that is neither
\* ErrContextDone-class nor ErrStart-class.
C7_CompletedExitCode ==
    CompletedOwnExit =>
        /\ result.ExitCode = status.code
        /\ ~ErrorsIs(result.Err, ErrContextDone)
        /\ ~ErrorsIs(result.Err, ErrStart)

\* C7 witness: exit code 255, returned through the exit notification although
\* the token had fired as well
C7_Witness ==
    CompletedOwnExit /\ status.code = 255 /\ result.ExitCode = 255 /\ ctxDone

\* C8 as stated: a Completed execution of a child that exited on its own has
\* Err = nil, for exit code 0 and for every nonzero exit code.
C8_CompletedErrNil == CompletedOwnExit => result.Err = NoErr

\* C8 as amended: a Completed execution of a child that exited on its own with
\* a nonzero code has Err = the wait layer's *exec.ExitError of that status,
\* never nil; with code 0 Err is nil, unless the wait layer reports an error
\* of its own (here: what the context goroutine reported after the token fired).
C8_CompletedErr ==
    CompletedOwnExit =>
        /\ status.code # 0 => (result.Err = ExitError(status) /\ result.Err # NoErr)
        /\ (status.code = 0 /\ watchErr = NoErr) => result.Err = NoErr
        /\ status.code = 0 => result.Err \in {NoErr, watchErr}

\* C8 witness: a clean exit with code 1 whose Result carries the ExitError
C8_Witness ==
    /\ CompletedOwnExit
    /\ status.code = 1
    /\ result.ExitCode = 1
    /\ result.Err.kind = "ExitError"
    /\ ~ctxDone

C12_WriteReturnsLen ==
    \A s \in Streams :
        /\ sinkErr[s] = NoErr
        /\ \A p \in SeqsUpTo(Bytes, MaxOffered) :
              WriteCount(sinks[s], p) = Len(p) /\ WriteErr(sinks[s], p) = NoErr

\* C12 witness: a sink with a positive limit took a chunk that fitted, was
\* overrun, and was then written again, empty chunk included
C12_Witness ==
    /\ sinks["stdout"].limit > 0
    /\ sinks["stdout"].truncated
    /\ Len(offered["stdout"]) = MaxOffered
    /\ Len(offered["stdout"]) > sinks["stdout"].limit + 1
    /\ emptyWrite["stdout"]
    /\ sinkErr["stdout"] = NoErr

(***************************************************************************)
(* One Run call under fair scheduling: the coordinator, the unit running    *)
(* Wait, the context goroutine and each copying goroutine take a step that  *)
(* stays possible.  Nothing is assumed of the token, the child, its         *)
(* descendant, or a caller's writer.                                        *)
(***************************************************************************)
Coordinator ==
    \/ SelectCtxDone
    \/ Kill
    \/ \E d \in 1 .. MaxDuration : CancelReturn(d)
    \/ \E d \in 1 .. MaxDuration : SelectDone(d)

WaitUnit == WaitProcess \/ WaitWatchIdle \/ WaitWatchResult \/ WaitReturn

WatchUnit == \E e \in {CtxErr, NoErr, ErrCancel} : WatchCancel(e)

Pump(s) == (\E k \in 1 .. MaxOut : PumpCopy(s, k)) \/ PumpEOF(s)

SpecFair ==
    /\ Init
    /\ [][Next]_vars
    /\ WF_vars(Coordinator)
    /\ WF_vars(WaitUnit)
    /\ WF_vars(WatchUnit)
    /\ \A s \in Streams : WF_vars(Pump(s))

\* the coordinator has issued its kill for a token that fired while the child
\* was running, and neither the child nor a descendant is left alive
GroupKilled ==
    /\ killIssued
    /\ firedRunning # "no"
    /\ proc # "running"
    /\ desc # "alive"

\* C13: once the token has fired during Running and the kill has ended the
\* child's process group, Run eventually returns, a caller's writer that never
\* completes its pending write included.
C13_ReturnsAfterKill == GroupKilled ~> Returned

(***************************************************************************)
(* Claims about the race, the error classes and the capture                 *)
(***************************************************************************)
\* C14: whenever the coordinator leaves the select in a state where both the
\* exit notification (done holds a value) and the cancellation (the token has
\* fired) are ready, it leaves it through the cancellation case.
C14_TieTakesCancel ==
    [][(pc = "select" /\ ctxDone /\ done # <<>> /\ pc' # "select") =>
           (branch' = "cancel" /\ pc' = "kill")]_vars

\* Run has returned an error whose cause is that the token had fired: Start
\* refused to run the command under a fired token, or the child was ended by a
\* kill that the fired token triggered
TokenCaused ==
    /\ Returned
    /\ result.Err # NoErr
    /\ \/ (proc = "none" /\ result.Err.text = CtxErr.text)
       \/ status.by = "kill"

\* C15: every error that Run returns because the token had fired, a token
\* fired before Run was called included, is ErrContextDone-class and not
\* ErrStart-class; and no Result is of both classes.
C15_CancellationClass ==
    /\ TokenCaused =>
          (ErrorsIs(result.Err, ErrContextDone) /\ ~ErrorsIs(result.Err, ErrStart))
    /\ Returned =>
          ~(ErrorsIs(result.Err, ErrContextDone) /\ ErrorsIs(result.Err, ErrStart))

\* C17: when Run returns for a command that started, on the exit case and on
\* the cancellation case alike, both copying goroutines have ended and the pipes
\* are drained, the Result holds exactly what the sinks hold, and no sink
\* changes afterwards.
C17_CaptureAfterPumps ==
    /\ []((Returned /\ proc # "none") =>
            /\ \A s \in Streams : pumpDone[s] /\ pipe[s] = <<>>
            /\ result.Stdout = sinks["stdout"].buf
            /\ result.Stderr = sinks["stderr"].buf
            /\ result.StdoutTruncated = sinks["stdout"].truncated
            /\ result.StderrTruncated = sinks["stderr"].truncated)
    /\ [][(Returned /\ proc # "none") => sinks' = sinks]_vars

\* C17 witness: a cancelled Run whose Result carries a truncated stdout capture
\* that the copying goroutine wrote in two chunks
C17_Witness ==
    /\ Cancelled
    /\ killIssued
    /\ chunks["stdout"] = 2
    /\ result.StdoutTruncated
    /\ Len(result.Stdout) = 1
    /\ \A s \in Streams : pumpDone[s]

\* C18: on Unix, when the child was ended by signal S and the select took the
\* exit notification, the Result has ExitCode = 128 + S.
C18_SignalExitCode ==
    (Returned /\ platform = "unix" /\ branch = "exit" /\ status.kind = "signaled") =>
        result.ExitCode = 128 + status.code

C19_TruncatedIffDropped ==
    \A s \in Streams :
        sinks[s].truncated <=> (Len(sinks[s].buf) < Len(offered[s]))

\* C20 as stated: a Write to a sink with capacity > 0 whose chunk is longer than
\* the room left adds the full length of the chunk to written.
C20_WrittenCountsOffered ==
    [][\A s \in Streams :
          LET room == sinks[s].limit - sinks[s].written
              n == Len(offered'[s]) - Len(offered[s])
          IN  (sinks[s].limit > 0 /\ n > room) =>
                  sinks'[s].written = sinks[s].written + n]_vars

\* C20 as amended: such a Write adds to written the number of bytes it stored,
\* which is the room that was left; written is the stored length and neither
\* exceeds the capacity.
C20_WrittenCountsStored ==
    /\ [](\A s \in Streams :
            sinks[s].limit > 0 =>
                (sinks[s].written = Len(sinks[s].buf) /\ sinks[s].written <= sinks[s].limit))
    /\ [][\A s \in Streams :
            LET room == sinks[s].limit - sinks[s].written
                n == Len(offered'[s]) - Len(offered[s])
            IN  (sinks[s].limit > 0 /\ n > room) =>
                    /\ sinks'[s].written = sinks[s].written + room
                    /\ Len(sinks'[s].buf) = Len(sinks[s].buf) + room]_vars

\* C20 witness: a sink of capacity 2 was given one chunk of three bytes and
\* has written = 2
C20_Witness ==
    /\ sinks["stdout"].limit = 2
    /\ chunks["stdout"] = 1
    /\ Len(offered["stdout"]) = 3
    /\ sinks["stdout"].written = 2
    /\ sinks["stdout"].truncated

====
